---- MODULE Spec2Model ----
(***************************************************************************)
(* Stock-transaction ledger of the minimarket inventory app                *)
(* (src/djangoApps/minimarket/inventory).                                  *)
(*                                                                         *)
(* The database is modelled at READ COMMITTED: a caller's UPDATE of a      *)
(* product row is private to its transaction.atomic() block, holds the     *)
(* row's write lock, and becomes visible to others when the block exits    *)
(* normally; an exception leaving the block rolls the write back.          *)
(* Rows are removed by populate_demo_data only; the foreign keys cascade   *)
(* and the database refuses a row whose referent has no row.               *)
(***************************************************************************)
EXTENDS Integers, Sequences, FiniteSets, TLC

\* ---------------------------------------------------------------- bounds
MaxSaves == 2          \* Transaction.save calls started in one behaviour
MaxQty == 1            \* largest quantity submitted
MaxInitStock == 1      \* largest stock a product starts with
TransactionTarget == 2 \* transactions the script's loop goes for (100 there)
MaxAttempts == 2       \* max_attempts of the script's loop (1000 there)

\* ---------------------------------------------------------------- inputs
Callers == {"c1", "c2"}            \* concurrent requests / script runs
Products == {1, 2}                 \* primary keys of the existing products
ProductIds == Products \cup {3}    \* pk 3 names no product until one is created
Categories == {1}                  \* primary keys of the existing categories
CategoryIds == Categories \cup {2}
TRANSACTION_TYPES == {"IN", "OUT"}
SubmittedTypes == TRANSACTION_TYPES \cup {"ADJ"}
Quantities == (0 - 1)..MaxQty
Notes == {"", "memo"}
InitStocks == {0, MaxInitStock}
\* what a POST can carry, and what a direct caller passes to Transaction(...);
\* the script's notes are fake.sentence(), never empty
FormData == [transaction_type : SubmittedTypes, quantity : Quantities,
             notes : Notes]
ScriptData == [transaction_type : TRANSACTION_TYPES, quantity : Quantities,
               notes : Notes \ {""}]
\* what the loop of populate_demo_data draws: random.randint(1, 20)
LoopData == [transaction_type : TRANSACTION_TYPES, quantity : 1..MaxQty,
             notes : Notes \ {""}]
\* the well-formed posts to add_transaction
VisitorData == [transaction_type : TRANSACTION_TYPES, quantity : 1..MaxQty,
                notes : {""}]
\* the rows the script creates: its categories, its products and their stock
NewCategories == CategoryIds \ Categories
NewProducts == ProductIds \ Products
NewStocks == 1..MaxInitStock
\* what a POST to add_product can carry; the name and the price are left out
ProductData == [category : CategoryIds, stock_quantity : Quantities]
NoData == [transaction_type |-> "", quantity |-> 0, notes |-> ""]
Writer == "c1"
Visitor == "c2"

NoProduct == [id |-> 0, stock_quantity |-> 0]
NoTransaction == [transaction_type |-> "", quantity |-> 0, notes |-> ""]
NoResponse == [caller |-> "", kind |-> "none", available |-> 0, requested |-> 0]
Result(k) == [kind |-> k, available |-> 0, requested |-> 0]

\* ---- myCmdInterpreter/console.py
MaxCommands == 3
Commands == {"help", "quit", "EOF", ""}
Modes == {"interactive", "stdin"}
Inputs == UNION {[1..n -> Commands] : n \in 0..MaxCommands}
NoConsole ==
    [pc |-> "off", mode |-> "", commands |-> <<>>, processed |-> <<>>]

\* ---- auth/main.py
MinLength == 8
DefaultLength == 12
Lowercase == {"a", "c"}
Uppercase == {"B"}
Digits == {"1"}
Special == {"!"}
\* requested lengths: below the minimum, the minimum, the default
Lengths == {MinLength - 1, MinLength, DefaultLength}
\* the characters the draws of the rest fall on
Filling == {"c"}
\* new_password is password_list joined whenever the loop tests it
NoPassword ==
    [pc |-> "idle", requested |-> 0, length |-> 0, i |-> 0,
     password_list |-> <<>>]

\* ---- practice/docs/generate_book.py
\* chapters of the book (15 in the source) and pages one part can take
MaxChapter == 3
MaxPages == 2
Part(name, n) == [name |-> name, chapter |-> n]
\* the functions whose elements make the book, in the order of the build
Parts ==
    <<Part("cover_page", 0), Part("preface", 0), Part("table_of_contents", 0)>>
       \o [n \in 1..MaxChapter |-> Part("chapter", n)]
NoBook == [pc |-> "elements", chapter_number |-> 0, elements |-> <<>>,
           part |-> 0, pages |-> 0, page |-> 0, drawn |-> <<>>]

VARIABLES
    stock,        \* persisted Product.stock_quantity, by pk
    ledger,       \* persisted Transaction rows, in insertion order
    pwrites,      \* committed writes of a product row made by Transaction.save
    twrites,      \* committed writes of Transaction rows, by product
    initial_stock,\* the stock each product was created with
    products,     \* populate_demo_data's list of Product objects: their stock
    pc,           \* where each caller is
    via,          \* who called Transaction.save: "view", "script", or
                  \* "resave" for a call on a persisted instance
    product,      \* self.product, the Product object of the running call
    txn,          \* the Transaction instance being saved
    response,     \* what the step just taken returned to its caller, if it
                  \* ended a call
    nsaves,       \* Transaction.save calls started so far
    reader,       \* the request of a reading view (product_detail)
    live,         \* pks of the persisted Product rows
    cats,         \* pks of the persisted Category rows
    category,     \* Product.category of each product, a Category pk
    self_pk,      \* pk of the Transaction instance being saved, 0 before its
                  \* first insert
    script,       \* a run of populate_demo_data: its position and counters
    console,      \* a run of myCmdInterpreter/console.py
    password,     \* a call of PasswordChecker.generate_random_password
    book          \* a run of the PDF generator generate_book.py

vars == <<stock, ledger, pwrites, twrites, initial_stock, products, pc, via,
          product, txn, response, nsaves, reader, live, cats, category,
          self_pk, script, console, password, book>>
\* the state of the programs under src/Python_tutorials
tutorials == <<console, password, book>>
\* the state of the minimarket app, which the tutorial programs never touch
minimarket == <<stock, ledger, pwrites, twrites, initial_stock, products, pc,
                via, product, txn, response, nsaves, reader, live, cats,
                category, self_pk, script>>
db == <<stock, ledger, pwrites, twrites, live, cats, category>>

\* ------------------------------------------------------------- the models
\* a plain IntegerField carries no check on the column
IntegerField(v) == TRUE

\* PositiveIntegerField: the column carries the check  value >= 0
PositiveIntegerField(v) == v >= 0

\* TransactionForm.is_valid: transaction_type is one of the choices and
\* quantity passes the form field of a PositiveIntegerField (min_value 0)
FormIsValid(data) ==
    /\ data.transaction_type \in TRANSACTION_TYPES
    /\ data.quantity >= 0

\* Transaction.save, the test of lines 38-39
InsufficientStock(prod, t) ==
    /\ t.transaction_type = "OUT"
    /\ prod.stock_quantity < t.quantity

\* Transaction.save, lines 45-48
Adjusted(prod, t) ==
    IF t.transaction_type = "IN"
    THEN [prod EXCEPT !.stock_quantity = @ + t.quantity]
    ELSE IF t.transaction_type = "OUT"
    THEN [prod EXCEPT !.stock_quantity = @ - t.quantity]
    ELSE prod

\* the row is inserted with the pk of the first product as its product_id
NewRowOfFirstProduct(rows, prod, t) ==
    [id |-> Len(rows) + 1, product |-> 1,
     transaction_type |-> t.transaction_type, quantity |-> t.quantity,
     notes |-> t.notes]

\* the row inserted by super().save()
NewRow(rows, prod, t) ==
    [id |-> Len(rows) + 1, product |-> prod.id,
     transaction_type |-> t.transaction_type, quantity |-> t.quantity,
     notes |-> t.notes]

\* a caller holds the write lock of product row p from its UPDATE until its
\* atomic block exits
HoldsLock(c, p) == pc[c] = "tsave" /\ product[c].id = p
\* a row lock that is never granted
LockNeverFree(p) == FALSE

LockFree(p) == \A c \in Callers : ~HoldsLock(c, p)

\* autocommit: the UPDATE is persisted as soon as it is made, whatever follows
Autocommit(committed, writes, written, raised) ==
    [stock_quantity |-> written, writes |-> writes + 1]

\* transaction.atomic().__exit__: what is persisted of the product UPDATE made
\* inside the block; without an exception the write commits, with one it is
\* rolled back
AtomicExit(committed, writes, written, raised) ==
    IF raised
    THEN [stock_quantity |-> committed, writes |-> writes]
    ELSE [stock_quantity |-> written, writes |-> writes + 1]

Init ==
    /\ stock \in [ProductIds -> InitStocks]
    /\ \A p \in ProductIds \ Products : stock[p] = 0
    /\ initial_stock = stock
    /\ products = [p \in Products |-> stock[p]]
    /\ ledger = <<>>
    /\ pwrites = [p \in ProductIds |-> 0]
    /\ twrites = [p \in ProductIds |-> 0]
    /\ live = Products
    /\ cats = Categories
    /\ category = [p \in ProductIds |-> IF p \in Products THEN 1 ELSE 0]
    /\ self_pk = [c \in Callers |-> 0]
    /\ script = [pc |-> "start", transaction_count |-> 0, attempts |-> 0]
    /\ pc = [c \in Callers |-> "idle"]
    /\ via = [c \in Callers |-> ""]
    /\ product = [c \in Callers |-> NoProduct]
    /\ txn = [c \in Callers |-> NoTransaction]
    /\ response = NoResponse
    /\ nsaves = 0
    /\ reader = [pc |-> "idle", pk |-> 0, stock_quantity |-> 0, pseen |-> 0,
                 tseen |-> 0, transactions |-> <<>>]
    /\ console = NoConsole
    /\ password = NoPassword
    /\ book = NoBook

\* an exception is printed and the loop goes on without counting it
CountedOnSuccess(run, result) ==
    IF result.kind = "saved"
    THEN [run EXCEPT !.pc = "loop", !.transaction_count = @ + 1]
    ELSE [run EXCEPT !.pc = "loop"]

\* populate_demo_data.py, lines 86-95, what the loop does with the outcome of
\* transaction.save(): success counts a transaction, every exception counts
\* an attempt and is printed
Counted(run, result) ==
    IF result.kind = "saved"
    THEN [run EXCEPT !.pc = "loop", !.transaction_count = @ + 1]
    ELSE [run EXCEPT !.pc = "loop", !.attempts = @ + 1]

\* the end of a call: its local objects are dropped, the caller has its
\* response or exception
Return(c, result) ==
    /\ pc' = [pc EXCEPT ![c] = "idle"]
    /\ via' = [via EXCEPT ![c] = ""]
    /\ product' = [product EXCEPT ![c] = NoProduct]
    /\ txn' = [txn EXCEPT ![c] = NoTransaction]
    /\ self_pk' = [self_pk EXCEPT ![c] = 0]
    /\ script' = IF via[c] = "script" /\ script.pc = "save"
                 THEN Counted(script, result)
                 ELSE script
    /\ response' = [caller |-> c, kind |-> result.kind,
                    available |-> result.available,
                    requested |-> result.requested]

\* --------------------------------------------------------------- views.py
\* the product is built from the pk of the URL without reading its row
AddTransactionUnchecked(c, pk, method, data) ==
    /\ pc[c] = "idle"
    /\ IF method = "POST" /\ FormIsValid(data)
       THEN /\ nsaves < MaxSaves
            /\ product' = [product EXCEPT ![c] =
                              [id |-> pk, stock_quantity |-> stock[pk]]]
            /\ txn' = [txn EXCEPT ![c] = data]
            /\ via' = [via EXCEPT ![c] = "view"]
            /\ pc' = [pc EXCEPT ![c] = "check"]
            /\ nsaves' = nsaves + 1
            /\ response' = NoResponse
            /\ UNCHANGED <<self_pk, script>>
       ELSE /\ Return(c, Result("rendered"))
            /\ UNCHANGED nsaves
    /\ UNCHANGED <<db, initial_stock, products, reader, tutorials>>

\* add_transaction(request, product_id), up to the call of transaction.save():
\* get_object_or_404 reads the product row; a GET, or a POST whose form is not
\* valid, renders the form; a valid POST builds the Transaction with
\* form.save(commit=False) and attaches the product just read
AddTransaction(c, pk, method, data) ==
    /\ pc[c] = "idle"
    /\ IF pk \notin live
       THEN /\ Return(c, Result("Http404"))
            /\ UNCHANGED nsaves
       ELSE IF method = "POST" /\ FormIsValid(data)
       THEN /\ nsaves < MaxSaves
            /\ product' = [product EXCEPT ![c] =
                              [id |-> pk, stock_quantity |-> stock[pk]]]
            /\ txn' = [txn EXCEPT ![c] = data]
            /\ via' = [via EXCEPT ![c] = "view"]
            /\ pc' = [pc EXCEPT ![c] = "check"]
            /\ nsaves' = nsaves + 1
            /\ response' = NoResponse
            /\ UNCHANGED <<self_pk, script>>
       ELSE /\ Return(c, Result("rendered"))
            /\ UNCHANGED nsaves
    /\ UNCHANGED <<db, initial_stock, products, reader, tutorials>>

\* home(request): the list of the products is rendered
Home(c) ==
    /\ pc[c] = "idle"
    /\ Return(c, Result("rendered"))
    /\ UNCHANGED <<db, initial_stock, products, nsaves, reader, tutorials>>

\* urls.py: the route names a redirect can be resolved to
UrlNames == {"home", "product_detail", "add_product", "add_transaction"}
Redirect(name) ==
    IF name \in UrlNames THEN Result("redirect") ELSE Result("NoReverseMatch")

\* ProductForm.is_valid: the category is an existing one and stock_quantity
\* passes the form field of a PositiveIntegerField
ProductFormIsValid(data) ==
    /\ data.category \in cats
    /\ data.stock_quantity >= 0

\* the form is bound to an existing product, whose row form.save() updates
AddProductOverExisting(c, method, data) ==
    /\ pc[c] = "idle"
    /\ IF method = "POST" /\ ProductFormIsValid(data)
       THEN \E p \in live :
               /\ stock' = [stock EXCEPT ![p] = data.stock_quantity]
               /\ category' = [category EXCEPT ![p] = data.category]
               /\ Return(c, Redirect("product_list"))
               /\ UNCHANGED <<live, initial_stock>>
       ELSE /\ Return(c, IF method = "POST" THEN Result("ValueError")
                         ELSE Result("rendered"))
            /\ UNCHANGED <<stock, initial_stock, live, category>>
    /\ UNCHANGED <<ledger, pwrites, twrites, cats, products, nsaves, reader, tutorials>>

\* add_product(request): a POST with a valid form inserts a new product row
\* with form.save() and then redirects to 'product_list'; a POST with a form
\* that is not valid falls off the end of the view, which returns None; a GET
\* renders the empty form
AddProduct(c, method, data) ==
    /\ pc[c] = "idle"
    /\ IF method = "POST" /\ ProductFormIsValid(data)
       THEN \E p \in NewProducts \ live :
               /\ live' = live \cup {p}
               /\ stock' = [stock EXCEPT ![p] = data.stock_quantity]
               /\ initial_stock' =
                      [initial_stock EXCEPT ![p] = data.stock_quantity]
               /\ category' = [category EXCEPT ![p] = data.category]
               /\ Return(c, Redirect("product_list"))
       ELSE /\ Return(c, IF method = "POST" THEN Result("ValueError")
                         ELSE Result("rendered"))
            /\ UNCHANGED <<stock, initial_stock, live, category>>
    /\ UNCHANGED <<ledger, pwrites, twrites, cats, products, nsaves, reader, tutorials>>

\* populate_demo_data.py, lines 72-85: Transaction(product=product, ...).save()
\* on a Product object of the script's list, with no form in between; the
\* script is one thread (LoopIteration is the same call under the loop's
\* condition and counters)
DirectSave(c, p, data) ==
    /\ pc[c] = "idle"
    /\ \A d \in Callers : via[d] # "script"
    /\ p \in DOMAIN products
    /\ nsaves < MaxSaves
    /\ product' = [product EXCEPT ![c] =
                      [id |-> p, stock_quantity |-> products[p]]]
    /\ txn' = [txn EXCEPT ![c] = data]
    /\ via' = [via EXCEPT ![c] = "script"]
    /\ pc' = [pc EXCEPT ![c] = "check"]
    /\ nsaves' = nsaves + 1
    /\ response' = NoResponse
    /\ UNCHANGED <<db, initial_stock, products, reader, tutorials, self_pk, script>>

\* Transaction.save called again on an instance that is already persisted,
\* row i of the table: the instance has its pk and its fields are those of the
\* row, and self.product is read from the product row
Resave(c, i) ==
    /\ pc[c] = "idle"
    /\ i \in 1..Len(ledger)
    /\ ledger[i].product \in live
    /\ nsaves < MaxSaves
    /\ product' = [product EXCEPT ![c] =
                      [id |-> ledger[i].product,
                       stock_quantity |-> stock[ledger[i].product]]]
    /\ txn' = [txn EXCEPT ![c] =
                  [transaction_type |-> ledger[i].transaction_type,
                   quantity |-> ledger[i].quantity, notes |-> ledger[i].notes]]
    /\ self_pk' = [self_pk EXCEPT ![c] = ledger[i].id]
    /\ via' = [via EXCEPT ![c] = "resave"]
    /\ pc' = [pc EXCEPT ![c] = "check"]
    /\ nsaves' = nsaves + 1
    /\ response' = NoResponse
    /\ UNCHANGED <<db, initial_stock, products, reader, tutorials, script>>

\* -------------------------------------------------------- Transaction.save
\* the stock is adjusted first and tested afterwards
SaveCheckAfterAdjust(c) ==
    /\ pc[c] = "check"
    /\ LET adjusted == Adjusted(product[c], txn[c])
       IN  IF txn[c].transaction_type = "OUT" /\ adjusted.stock_quantity < 0
           THEN /\ Return(c, [kind |-> "ValidationError",
                              available |-> product[c].stock_quantity,
                              requested |-> txn[c].quantity])
                /\ products' = IF via[c] = "script"
                               THEN [products EXCEPT ![product[c].id] =
                                        adjusted.stock_quantity]
                               ELSE products
           ELSE /\ pc' = [pc EXCEPT ![c] = "adjust"]
                /\ response' = NoResponse
                /\ UNCHANGED <<via, product, txn, products, self_pk, script>>
    /\ UNCHANGED <<db, initial_stock, nsaves, reader, tutorials>>

\* lines 37-43: enter the atomic block, test the stock of self.product
SaveCheck(c) ==
    /\ pc[c] = "check"
    /\ IF InsufficientStock(product[c], txn[c])
       THEN Return(c, [kind |-> "ValidationError",
                       available |-> product[c].stock_quantity,
                       requested |-> txn[c].quantity])
       ELSE /\ pc' = [pc EXCEPT ![c] = "adjust"]
            /\ response' = NoResponse
            /\ UNCHANGED <<via, product, txn, self_pk, script>>
    /\ UNCHANGED <<db, initial_stock, products, nsaves, reader, tutorials>>

\* the adjusted product is not saved: the call goes on to super().save()
SaveAdjustOnly(c) ==
    /\ pc[c] = "adjust"
    /\ product' = [product EXCEPT ![c] = Adjusted(product[c], txn[c])]
    /\ products' = IF via[c] = "script"
                   THEN [products EXCEPT ![product[c].id] =
                            Adjusted(product[c], txn[c]).stock_quantity]
                   ELSE products
    /\ pc' = [pc EXCEPT ![c] = "tsave"]
    /\ response' = NoResponse
    /\ UNCHANGED <<db, initial_stock, via, txn, nsaves, reader, tutorials,
                   self_pk, script>>
\* lines 45-48: adjust the stock of self.product in memory; the script's list
\* holds that same object
SaveAdjust(c) ==
    /\ pc[c] = "adjust"
    /\ product' = [product EXCEPT ![c] = Adjusted(product[c], txn[c])]
    /\ products' = IF via[c] = "script"
                   THEN [products EXCEPT ![product[c].id] =
                            Adjusted(product[c], txn[c]).stock_quantity]
                   ELSE products
    /\ pc' = [pc EXCEPT ![c] = "psave"]
    /\ response' = NoResponse
    /\ UNCHANGED <<db, initial_stock, via, txn, nsaves, reader, tutorials,
                   self_pk, script>>

\* line 49: self.product.save(), an UPDATE inside the atomic block; it waits
\* for the row's write lock, and the column check rejects a negative stock
SaveProduct(c) ==
    /\ pc[c] = "psave"
    /\ IF PositiveIntegerField(product[c].stock_quantity)
       THEN /\ LockFree(product[c].id)
            /\ pc' = [pc EXCEPT ![c] = "tsave"]
            /\ response' = NoResponse
            /\ UNCHANGED <<via, product, txn, self_pk, script>>
       ELSE Return(c, Result("IntegrityError"))
    /\ UNCHANGED <<db, initial_stock, products, nsaves, reader, tutorials>>

\* the UPDATE of a saved instance is made on every row of its product
WrittenWhereProduct(rows, pk, prod, t) ==
    IF pk = 0
    THEN Append(rows, NewRow(rows, prod, t))
    ELSE [i \in 1..Len(rows) |->
             IF rows[i].product = prod.id
             THEN [NewRow(rows, prod, t) EXCEPT !.id = rows[i].id]
             ELSE rows[i]]

\* what super().save() leaves in the table: an instance without a pk is
\* inserted, an instance that has one is written over its own row
Written(rows, pk, prod, t) ==
    IF pk = 0
    THEN Append(rows, NewRow(rows, prod, t))
    ELSE [i \in 1..Len(rows) |->
             IF rows[i].id = pk
             THEN [NewRow(rows, prod, t) EXCEPT !.id = pk]
             ELSE rows[i]]

\* the foreign key of Product.category: a product row that product.save() had
\* to insert, its row having been deleted, needs its category row at commit
CategoryMissing(p) == p \notin live /\ category[p] \notin cats

\* the product UPDATE is made without its WHERE clause, on every product row
SaveInsertEveryRow(c) ==
    /\ pc[c] = "tsave"
    /\ LET p == product[c].id
           raised == ~PositiveIntegerField(txn[c].quantity) \/ CategoryMissing(p)
           exit == AtomicExit(stock[p], pwrites[p],
                              product[c].stock_quantity, raised)
       IN  /\ stock' = IF raised THEN stock
                       ELSE [q \in ProductIds |-> exit.stock_quantity]
           /\ pwrites' = [pwrites EXCEPT ![p] = exit.writes]
           /\ twrites' = [twrites EXCEPT ![p] = IF raised THEN @ ELSE @ + 1]
           /\ ledger' = IF raised THEN ledger
                        ELSE Written(ledger, self_pk[c], product[c], txn[c])
           /\ live' = IF raised THEN live ELSE live \cup {p}
           /\ Return(c, IF raised THEN Result("IntegrityError")
                        ELSE Result("saved"))
    /\ UNCHANGED <<initial_stock, products, nsaves, reader, tutorials, cats, category>>

\* line 50 and the end of the block: super().save() writes the row and the
\* block commits; a quantity the column check rejects raises instead
SaveInsert(c) ==
    /\ pc[c] = "tsave"
    /\ LET p == product[c].id
           raised == ~PositiveIntegerField(txn[c].quantity) \/ CategoryMissing(p)
           exit == AtomicExit(stock[p], pwrites[p],
                              product[c].stock_quantity, raised)
       IN  /\ stock' = [stock EXCEPT ![p] = exit.stock_quantity]
           /\ pwrites' = [pwrites EXCEPT ![p] = exit.writes]
           /\ twrites' = [twrites EXCEPT ![p] = IF raised THEN @ ELSE @ + 1]
           /\ ledger' = IF raised THEN ledger
                        ELSE Written(ledger, self_pk[c], product[c], txn[c])
           /\ live' = IF raised THEN live ELSE live \cup {p}
           /\ Return(c, IF raised THEN Result("IntegrityError")
                        ELSE Result("saved"))
    /\ UNCHANGED <<initial_stock, products, nsaves, reader, tutorials, cats, category>>

\* an error or crash after the product UPDATE and before the insert: the
\* exception leaves the atomic block
SaveError(c) ==
    /\ pc[c] = "tsave"
    /\ LET p == product[c].id
           exit == AtomicExit(stock[p], pwrites[p],
                              product[c].stock_quantity, TRUE)
       IN  /\ stock' = [stock EXCEPT ![p] = exit.stock_quantity]
           /\ pwrites' = [pwrites EXCEPT ![p] = exit.writes]
    /\ Return(c, Result("DatabaseError"))
    /\ UNCHANGED <<ledger, twrites, initial_stock, products, nsaves, reader, tutorials,
                   live, cats, category>>

\* --------------------------------------------------- populate_demo_data.py
\* a foreign key that leaves the referencing rows where they are
NoCascade(rows, deleted) == rows

\* the rows left when the products of a set are deleted: on_delete=CASCADE
\* deletes the transactions of a deleted product with it
Cascade(rows, deleted) ==
    SelectSeq(rows, LAMBDA r : r.product \notin deleted)

\* the products of the categories of a set
ProductsIn(deleted) == {p \in live : category[p] \in deleted}

\* line 30: Transaction.objects.all().delete()
DeleteTransactions ==
    /\ script.pc = "start"
    /\ ledger' = <<>>
    /\ script' = [script EXCEPT !.pc = "delete_products"]
    /\ response' = NoResponse
    /\ UNCHANGED <<stock, pwrites, twrites, live, cats, category,
                   initial_stock, products, pc, via, product, txn, nsaves,
                   reader, tutorials, self_pk>>

\* line 31: Product.objects.all().delete(); the DELETE waits for the write
\* lock of every row it removes
DeleteProducts ==
    /\ script.pc = "delete_products"
    /\ \A p \in live : LockFree(p)
    /\ ledger' = Cascade(ledger, live)
    /\ live' = {}
    /\ script' = [script EXCEPT !.pc = "delete_categories"]
    /\ response' = NoResponse
    /\ UNCHANGED <<stock, pwrites, twrites, cats, category, initial_stock,
                   products, pc, via, product, txn, nsaves, reader, tutorials, self_pk>>

\* line 32: Category.objects.all().delete(), which takes the products of the
\* categories and their transactions along
DeleteCategories ==
    /\ script.pc = "delete_categories"
    /\ \A p \in ProductsIn(cats) : LockFree(p)
    /\ ledger' = Cascade(ledger, ProductsIn(cats))
    /\ live' = live \ ProductsIn(cats)
    /\ cats' = {}
    /\ script' = [script EXCEPT !.pc = "categories"]
    /\ response' = NoResponse
    /\ UNCHANGED <<stock, pwrites, twrites, category, initial_stock, products,
                   pc, via, product, txn, nsaves, reader, tutorials, self_pk>>

\* lines 36-44: Category.objects.create(...) until the list is full
CreateCategories ==
    /\ script.pc = "categories"
    /\ cats' = cats \cup NewCategories
    /\ script' = [script EXCEPT !.pc = "products"]
    /\ response' = NoResponse
    /\ UNCHANGED <<stock, ledger, pwrites, twrites, live, category,
                   initial_stock, products, pc, via, product, txn, nsaves,
                   reader, tutorials, self_pk>>

\* lines 48-63: Product.objects.create(...) in a category of the list, with a
\* random stock; the new Product objects are the list  products
CreateProducts(cat, created) ==
    /\ script.pc = "products"
    /\ cat \in NewCategories
    /\ created \in [NewProducts -> NewStocks]
    /\ live' = live \cup NewProducts
    /\ category' = [p \in ProductIds |->
                        IF p \in NewProducts THEN cat ELSE category[p]]
    /\ stock' = [p \in ProductIds |->
                     IF p \in NewProducts THEN created[p] ELSE stock[p]]
    /\ initial_stock' = [p \in ProductIds |->
                     IF p \in NewProducts THEN created[p] ELSE initial_stock[p]]
    /\ products' = created
    /\ script' = [pc |-> "loop", transaction_count |-> 0, attempts |-> 0]
    /\ response' = NoResponse
    /\ UNCHANGED <<ledger, pwrites, twrites, cats, pc, via, product, txn,
                   nsaves, reader, tutorials, self_pk>>

\* lines 71-85: while the loop goes on, draw a product of the list, a type
\* and a quantity, build the Transaction and call its save()
LoopIteration(p, data) ==
    /\ script.pc = "loop"
    /\ script.transaction_count < TransactionTarget
    /\ script.attempts < MaxAttempts
    /\ pc[Writer] = "idle"
    /\ p \in DOMAIN products
    /\ product' = [product EXCEPT ![Writer] =
                      [id |-> p, stock_quantity |-> products[p]]]
    /\ txn' = [txn EXCEPT ![Writer] = data]
    /\ via' = [via EXCEPT ![Writer] = "script"]
    /\ pc' = [pc EXCEPT ![Writer] = "check"]
    /\ script' = [script EXCEPT !.pc = "save"]
    /\ response' = NoResponse
    /\ UNCHANGED <<db, initial_stock, products, nsaves, reader, tutorials, self_pk>>

\* lines 71 and 97-100: the loop is left, the script prints how it went
LoopExit ==
    /\ script.pc = "loop"
    /\ ~(script.transaction_count < TransactionTarget
            /\ script.attempts < MaxAttempts)
    /\ script' = [script EXCEPT !.pc = "done"]
    /\ response' = NoResponse
    /\ UNCHANGED <<db, initial_stock, products, pc, via, product, txn, nsaves,
                   reader, tutorials, self_pk>>

\* ------------------------------------------------------- the reading views
RECURSIVE RowsOf(_, _)
RowsOf(rows, p) ==
    IF rows = <<>> THEN <<>>
    ELSE IF Head(rows).product = p
         THEN <<Head(rows)>> \o RowsOf(Tail(rows), p)
         ELSE RowsOf(Tail(rows), p)

\* product_detail, line 11: get_object_or_404(Product, pk=pk)
DetailGetProduct(pk) ==
    /\ reader.pc \in {"idle", "rendered"}
    /\ pk \in live
    /\ reader' = [pc |-> "detail", pk |-> pk, stock_quantity |-> stock[pk],
                  pseen |-> pwrites[pk], tseen |-> 0, transactions |-> <<>>]
    /\ response' = NoResponse
    /\ UNCHANGED <<db, initial_stock, products, pc, via, product, txn, nsaves,
                  self_pk, script, tutorials>>

\* product_detail, lines 12-13: the transactions queryset is evaluated when
\* the template is rendered, in a second query
DetailRender ==
    /\ reader.pc = "detail"
    /\ reader' = [reader EXCEPT !.pc = "rendered",
                                !.transactions = RowsOf(ledger, reader.pk),
                                !.tseen = twrites[reader.pk]]
    /\ response' = NoResponse
    /\ UNCHANGED <<db, initial_stock, products, pc, via, product, txn, nsaves,
                  self_pk, script, tutorials>>

\* ----------------------------------------------- the password generator
\* str.lower on one character
ToLower(ch) == IF ch = "B" THEN "b" ELSE ch
Lowered(str) == [i \in DOMAIN str |-> ToLower(str[i])]

\* re.search(r"(.)\1{2,}", str): some character three times in a row
Repeats(str) ==
    \E i \in 1..(Len(str) - 2) : str[i] = str[i + 1] /\ str[i + 1] = str[i + 2]

\* seq in str
Contains(str, seq) ==
    \E i \in 0..(Len(str) - Len(seq)) :
       \A k \in 1..Len(seq) : str[i + k] = seq[k]

\* the sequences are looked for in the password as it is
RejectedWithCase(new_password) ==
    \/ Repeats(new_password)
    \/ \E seq \in {<<"a", "b", "c">>, <<"1", "2", "3">>} :
          Contains(new_password, seq)
\* the condition of the while loop, line 106
Rejected(new_password) ==
    \/ Repeats(new_password)
    \/ \E seq \in {<<"a", "b", "c">>, <<"1", "2", "3">>} :
          Contains(Lowered(new_password), seq)

\* lines 83-101: the length is raised to the minimum, one character of each
\* class and the rest are drawn and put in a list
GenerateRandomPassword(length, lower, upper, digit, special, rest) ==
    /\ password.pc = "idle"
    /\ LET len == IF length < MinLength THEN MinLength ELSE length
       IN /\ Len(rest) = len - 4
          /\ password' = [pc |-> "shuffle", requested |-> length,
                          length |-> len, i |-> len,
                          password_list |->
                              <<lower, upper, digit, special>> \o rest]
    /\ UNCHANGED <<minimarket, console, book>>

\* random.shuffle(password_list), lines 102 and 107: one turn of its loop,
\* which swaps the element at i with one drawn from the first i; after the
\* last turn new_password is the list joined
Shuffle(j) ==
    /\ password.pc = "shuffle"
    /\ j \in 1..password.i
    /\ LET list == password.password_list
           i == password.i
       IN password' = [password EXCEPT
              !.password_list = [list EXCEPT ![i] = list[j], ![j] = list[i]],
              !.i = i - 1,
              !.pc = IF i = 2 THEN "while" ELSE "shuffle"]
    /\ UNCHANGED <<minimarket, console, book>>

\* lines 106-111: one test of the while loop; the list is shuffled again,
\* or the password is printed and returned
Reshuffle ==
    /\ password.pc = "while"
    /\ IF Rejected(password.password_list)
       THEN password' = [password EXCEPT !.pc = "shuffle", !.i = password.length]
       ELSE password' = [password EXCEPT !.pc = "returned"]
    /\ UNCHANGED <<minimarket, console, book>>

\* ---------------------------------------------------- the PDF generator
\* lines 2276-2294: elements.extend(f()) for the next function f; of all
\* of them chapter1 alone assigns chapter_number (line 281)
ExtendElements ==
    /\ book.pc = "elements"
    /\ Len(book.elements) < Len(Parts)
    /\ LET f == Parts[Len(book.elements) + 1]
       IN book' = [book EXCEPT
              !.chapter_number = IF f = Part("chapter", 1) THEN 1 ELSE @,
              !.elements = Append(@, f)]
    /\ UNCHANGED <<minimarket, console, password>>

\* on_page, lines 170-179, as the header of a page reads chapter_number
OnPage(doc_page, chapter_number) ==
    IF doc_page > 2 THEN chapter_number ELSE 0

\* doc.build(elements), line 2298: the next page is begun, on_page draws
\* its header, and the page is filled with the part that is being laid out
\* or, that part having ended with its PageBreak, with the next one
BuildPage(more) ==
    /\ \/ book.pc = "elements" /\ Len(book.elements) = Len(Parts)
       \/ book.pc = "build"
    /\ LET same == more /\ book.part > 0 /\ book.pages < MaxPages
           part == IF same THEN book.part ELSE book.part + 1
       IN IF part > Len(book.elements)
          THEN book' = [book EXCEPT !.pc = "done"]
          ELSE book' = [book EXCEPT
                   !.pc = "build",
                   !.part = part,
                   !.pages = IF same THEN @ + 1 ELSE 1,
                   !.page = @ + 1,
                   !.drawn = Append(@,
                       [page |-> book.page + 1,
                        chapter |-> book.elements[part].chapter,
                        header |-> OnPage(book.page + 1,
                                          book.chapter_number)])]
    /\ UNCHANGED <<minimarket, console, password>>

\* ------------------------------------------------- the command console
\* MyConsole.onecmd: do_quit and do_EOF return True, the stop flag;
\* do_help prints and emptyline passes, both returning None
OneCmd(line) == line \in {"quit", "EOF"}

\* console.py, lines 40-46: the mode is chosen from sys.stdin.isatty();
\* commands are the lines the user will type, or the lines of stdin
ConsoleMain(mode, commands) ==
    /\ console.pc = "off"
    /\ console' = [pc |-> IF mode = "interactive" THEN "cmdloop" ELSE "for",
                   mode |-> mode, commands |-> commands, processed |-> <<>>]
    /\ UNCHANGED <<minimarket, password, book>>

\* interactive_mode: one turn of Cmd.cmdloop, which reads a line (the end
\* of the input reads as "EOF"), hands it to onecmd and leaves when onecmd
\* returns the stop flag
InteractiveMode ==
    /\ console.pc = "cmdloop"
    /\ LET line == IF console.commands = <<>> THEN "EOF"
                   ELSE Head(console.commands)
       IN console' = [console EXCEPT
              !.pc = IF OneCmd(line) THEN "exited" ELSE "cmdloop",
              !.commands = IF @ = <<>> THEN <<>> ELSE Tail(@),
              !.processed = Append(@, line)]
    /\ UNCHANGED <<minimarket, password, book>>

\* non_interactive_mode: one turn of `for command in commands:
\* console.onecmd(command)`; what onecmd returns is dropped
NonInteractiveMode ==
    /\ console.pc = "for"
    /\ console' = IF console.commands = <<>>
                  THEN [console EXCEPT !.pc = "exited"]
                  ELSE [console EXCEPT
                           !.commands = Tail(@),
                           !.processed = Append(@, Head(console.commands))]
    /\ UNCHANGED <<minimarket, password, book>>

Next ==
    \/ \E c \in Callers, pk \in ProductIds : AddTransaction(c, pk, "GET", NoData)
    \/ \E c \in Callers, pk \in Products, data \in FormData :
          AddTransaction(c, pk, "POST", data)
    \/ \E c \in Callers, p \in Products, data \in ScriptData :
          DirectSave(c, p, data)
    \/ \E c \in Callers : SaveCheck(c)
    \/ \E c \in Callers : SaveAdjust(c)
    \/ \E c \in Callers : SaveProduct(c)
    \/ \E c \in Callers : SaveInsert(c)
    \/ \E c \in Callers : SaveError(c)

Spec == Init /\ [][Next]_vars

\* concurrent requests of the add_transaction view only
NextViews ==
    \/ \E c \in Callers, pk \in ProductIds : AddTransaction(c, pk, "GET", NoData)
    \/ \E c \in Callers, pk \in Products, data \in FormData :
          AddTransaction(c, pk, "POST", data)
    \/ \E c \in Callers : SaveCheck(c)
    \/ \E c \in Callers : SaveAdjust(c)
    \/ \E c \in Callers : SaveProduct(c)
    \/ \E c \in Callers : SaveInsert(c)
    \/ \E c \in Callers : SaveError(c)

SpecViews == Init /\ [][NextViews]_vars

\* the same requests under the scheduling the server and the database give:
\* a call that can take its next step takes it, a save goes on to its insert
\* or to an error, and a caller waiting for a row lock gets it once it is
\* released
Fairness ==
    \A c \in Callers :
        /\ WF_vars(SaveCheck(c))
        /\ WF_vars(SaveAdjust(c))
        /\ SF_vars(SaveProduct(c))
        /\ WF_vars(SaveInsert(c) \/ SaveError(c))

SpecFair == Init /\ [][NextViews]_vars /\ Fairness

\* one caller of the add_transaction view and a request of product_detail
NextRead ==
    \/ \E pk \in ProductIds : AddTransaction(Writer, pk, "GET", NoData)
    \/ \E pk \in Products, data \in FormData :
          AddTransaction(Writer, pk, "POST", data)
    \/ SaveCheck(Writer)
    \/ SaveAdjust(Writer)
    \/ SaveProduct(Writer)
    \/ SaveInsert(Writer)
    \/ SaveError(Writer)
    \/ \E pk \in Products : DetailGetProduct(pk)
    \/ DetailRender

SpecRead == Init /\ [][NextRead]_vars

\* the four views: a visitor of home and add_product, requests of
\* product_detail, and one caller of add_transaction
NextBrowse ==
    \/ Home(Visitor)
    \/ AddProduct(Visitor, "GET", [category |-> 0, stock_quantity |-> 0])
    \/ \E data \in ProductData : AddProduct(Visitor, "POST", data)
    \/ \E pk \in ProductIds : AddTransaction(Writer, pk, "GET", NoData)
    \/ \E pk \in ProductIds, data \in VisitorData :
          AddTransaction(Writer, pk, "POST", data)
    \/ SaveCheck(Writer)
    \/ SaveAdjust(Writer)
    \/ SaveProduct(Writer)
    \/ SaveInsert(Writer)
    \/ SaveError(Writer)
    \/ \E pk \in ProductIds : DetailGetProduct(pk)
    \/ DetailRender

SpecBrowse == Init /\ [][NextBrowse]_vars

\* one caller that saves through the view and saves persisted instances again
NextResave ==
    \/ \E pk \in ProductIds : AddTransaction(Writer, pk, "GET", NoData)
    \/ \E pk \in Products, data \in FormData :
          AddTransaction(Writer, pk, "POST", data)
    \/ \E i \in 1..MaxSaves : Resave(Writer, i)
    \/ SaveCheck(Writer)
    \/ SaveAdjust(Writer)
    \/ SaveProduct(Writer)
    \/ SaveInsert(Writer)
    \/ SaveError(Writer)

SpecResave == Init /\ [][NextResave]_vars

\* a run of populate_demo_data (its saves are the caller Writer's) next to
\* the requests of one visitor of add_transaction
NextPopulate ==
    \/ DeleteTransactions
    \/ DeleteProducts
    \/ DeleteCategories
    \/ CreateCategories
    \/ \E cat \in NewCategories, created \in [NewProducts -> NewStocks] :
          CreateProducts(cat, created)
    \/ \E p \in NewProducts, data \in LoopData : LoopIteration(p, data)
    \/ LoopExit
    \/ \E pk \in ProductIds : AddTransaction(Visitor, pk, "GET", NoData)
    \/ \E pk \in ProductIds, data \in VisitorData :
          AddTransaction(Visitor, pk, "POST", data)
    \/ \E i \in 1..(TransactionTarget + MaxSaves) : Resave(Visitor, i)
    \/ \E c \in Callers : SaveCheck(c)
    \/ \E c \in Callers : SaveAdjust(c)
    \/ \E c \in Callers : SaveProduct(c)
    \/ \E c \in Callers : SaveInsert(c)
    \/ \E c \in Callers : SaveError(c)

SpecPopulate == Init /\ [][NextPopulate]_vars

\* a run of populate_demo_data on its own; the script is a sequential
\* program that goes on as long as it has a next statement
NextScript ==
    \/ DeleteTransactions
    \/ DeleteProducts
    \/ DeleteCategories
    \/ CreateCategories
    \/ \E cat \in NewCategories, created \in [NewProducts -> NewStocks] :
          CreateProducts(cat, created)
    \/ \E p \in NewProducts, data \in LoopData : LoopIteration(p, data)
    \/ LoopExit
    \/ SaveCheck(Writer)
    \/ SaveAdjust(Writer)
    \/ SaveProduct(Writer)
    \/ SaveInsert(Writer)
    \/ SaveError(Writer)

SpecScript == Init /\ [][NextScript]_vars /\ WF_vars(NextScript)

\* the tutorial programs run beside a minimarket that nobody has stocked
InitTutorials == Init /\ \A p \in ProductIds : stock[p] = 0

\* a run of the console in either mode
NextConsole ==
    \/ \E mode \in Modes, commands \in Inputs : ConsoleMain(mode, commands)
    \/ InteractiveMode
    \/ NonInteractiveMode

SpecConsole == InitTutorials /\ [][NextConsole]_vars

\* calls of generate_random_password with a length below the minimum, the
\* minimum and the default, the rest being drawn from Filling
NextPassword ==
    \/ \E length \in Lengths, lower \in Lowercase, upper \in Uppercase,
          digit \in Digits, special \in Special :
          \E rest \in [1..((IF length < MinLength THEN MinLength ELSE length)
                              - 4) -> Filling] :
             GenerateRandomPassword(length, lower, upper, digit, special, rest)
    \/ \E j \in 1..DefaultLength : Shuffle(j)
    \/ Reshuffle

SpecPassword == InitTutorials /\ [][NextPassword]_vars

\* a run of generate_book.py
NextBook ==
    \/ ExtendElements
    \/ \E more \in BOOLEAN : BuildPage(more)

SpecBook == InitTutorials /\ [][NextBook]_vars

\* ------------------------------------------------------------ properties
RECURSIVE SumQuantity(_, _, _)
SumQuantity(rows, p, type) ==
    IF rows = <<>> THEN 0
    ELSE (IF Head(rows).product = p /\ Head(rows).transaction_type = type
          THEN Head(rows).quantity ELSE 0) + SumQuantity(Tail(rows), p, type)

RECURSIVE Replay(_, _)
Replay(s, rows) ==
    IF rows = <<>> THEN s
    ELSE Replay(IF Head(rows).transaction_type = "IN"
                THEN s + Head(rows).quantity
                ELSE s - Head(rows).quantity, Tail(rows))

Quiescent == \A c \in Callers : pc[c] = "idle"

\* every persisted transaction row has the positive quantity the ledger asks for
QuantitiesPositive == \A i \in 1..Len(ledger) : ledger[i].quantity > 0

\* C1: whatever saves have run, one after another or concurrently, the
\* persisted stock_quantity of every product is >= 0.
C1_StockNeverNegative == \A p \in Products : stock[p] >= 0

\* two OUT rows were committed for a product that cannot cover both (the
\* callers ran concurrently), and its stock is 0
C1_Witness ==
    \E p \in Products :
        /\ stock[p] = 0
        /\ SumQuantity(ledger, p, "OUT") > initial_stock[p]
        /\ SumQuantity(ledger, p, "IN") = 0

\* C2: the persisted stock of a product equals its initial stock plus the IN
\* quantities minus the OUT quantities of its transaction rows, and is >= 0.
C2_StockEqualsLedgerSum ==
    QuantitiesPositive => \A p \in Products :
        /\ stock[p] = initial_stock[p] + SumQuantity(ledger, p, "IN")
                                       - SumQuantity(ledger, p, "OUT")
        /\ stock[p] >= 0

\* C3: the OUT saves that succeed on a product never take out more than the
\* product had: of concurrent OUT saves that together exceed the stock, only
\* as many succeed as the stock covers.
C3_NoOversell ==
    \A p \in Products :
        SumQuantity(ledger, p, "OUT")
            <= initial_stock[p] + SumQuantity(ledger, p, "IN")

\* C4: when no save is in progress, the stock of a product is what applying
\* its committed transactions one after another gives (no update is lost).
C4_SerialResult ==
    (Quiescent /\ QuantitiesPositive) =>
        \A p \in Products :
            stock[p] = Replay(initial_stock[p], RowsOf(ledger, p))

\* C5: a save that ends in the insufficient-stock ValidationError changes
\* neither the persisted stocks, nor the transaction rows, nor the Product
\* object it was given: the test is made before anything is changed.
C5_ValidationFailureChangesNothing ==
    [][\A c \in Callers :
          (pc[c] = "check" /\ pc'[c] = "idle")
              => /\ stock' = stock
                 /\ ledger' = ledger
                 /\ products' = products]_vars

\* a save ended in ValidationError on a product whose stock it exceeded
C5_Witness ==
    /\ response.kind = "ValidationError"
    /\ response.requested > response.available
    /\ ledger = <<>>
    /\ stock = initial_stock

\* C6: an OUT save fails with the insufficient-stock error exactly when its
\* quantity is greater than the product's persisted stock, and then reports
\* that stock as available and the quantity as requested.
C6_OutFailsIffExceedsStock ==
    [][\A c \in Callers :
          (pc[c] = "check" /\ pc'[c] # "check"
              /\ txn[c].transaction_type = "OUT")
              => /\ (pc'[c] = "idle" /\ response'.kind = "ValidationError")
                        <=> (txn[c].quantity > stock[product[c].id])
                 /\ pc'[c] = "idle"
                        => /\ response'.available = stock[product[c].id]
                           /\ response'.requested = txn[c].quantity]_vars

\* C7: no transaction row with a quantity <= 0 is ever persisted.
C7_QuantityPositive == QuantitiesPositive

\* C8: a save that succeeds changes the persisted stock of its product by
\* exactly +quantity (IN) or -quantity (OUT) and appends exactly one row with
\* the product, direction, quantity and notes supplied.
C8_ExactEffect ==
    [][\A c \in Callers :
          (pc[c] = "tsave" /\ pc'[c] = "idle" /\ response'.kind = "saved"
              /\ txn[c].quantity > 0)
              => LET p == product[c].id
                     t == txn[c]
                 IN  /\ stock'[p] = stock[p] +
                            (IF t.transaction_type = "IN" THEN t.quantity
                             ELSE 0 - t.quantity)
                     /\ Len(ledger') = Len(ledger) + 1
                     /\ ledger'[Len(ledger')].product = p
                     /\ ledger'[Len(ledger')].transaction_type
                            = t.transaction_type
                     /\ ledger'[Len(ledger')].quantity = t.quantity
                     /\ ledger'[Len(ledger')].notes = t.notes]_vars

\* C9: in every step the write of a product's stock and the insert of the
\* transaction row are persisted together or not at all: a save that fails
\* after its product UPDATE leaves the persisted stock as it was.
C9_AllOrNothing ==
    [][/\ (pwrites' # pwrites) <=> (ledger' # ledger)
       /\ (stock' # stock) => (ledger' # ledger)]_vars

\* a save failed between its product UPDATE and the insert, and nothing of it
\* is persisted
C9_Witness ==
    /\ response.kind = "DatabaseError"
    /\ ledger = <<>>
    /\ stock = initial_stock

\* C10: what product_detail renders is one persisted state: the product row
\* it read and the transaction rows it read belong together.
C10_ReaderSeesBoth ==
    reader.pc = "rendered" => reader.pseen = reader.tseen

\* C11: for every product, the number of committed stock writes made by
\* Transaction.save equals the number of its persisted transaction rows, also
\* after save() has been called again on a persisted instance
C11_OneRowPerStockWrite ==
    QuantitiesPositive =>
        \A p \in Products : pwrites[p] = Len(RowsOf(ledger, p))

\* a transaction row is among the rows of a table
Kept(row, rows) == \E j \in 1..Len(rows) : rows[j] = row

\* a step of step 1 of the script, the three deletes of lines 30-32
ClearingStep ==
    /\ script.pc \in {"start", "delete_products", "delete_categories"}
    /\ script'.pc # script.pc

C13_MissingProductNotFound ==
    [][\A c \in Callers :
          /\ (pc[c] = "idle" /\ pc'[c] = "check") => product'[c].id \in live
          /\ (response'.kind = "Http404" /\ response'.caller = c)
                => /\ pc[c] = "idle" /\ pc'[c] = "idle"
                   /\ ledger' = ledger
                   /\ stock' = stock
                   /\ live' = live]_vars

\* a request for a missing product was answered Http404 while the table held
\* transaction rows
C13_Witness ==
    /\ response.kind = "Http404"
    /\ ledger # <<>>

\* the outcomes of a call of Transaction.save
Outcomes == {"saved", "ValidationError", "IntegrityError", "DatabaseError"}

\* C14: every call of Transaction.save ends, also one that had to wait for a
\* row lock, and it ends in a definite outcome handed to its caller: the row
\* saved, or one exception; nothing is retried and no exception is dropped.
C14_SaveTerminates ==
    /\ \A c \in Callers : (pc[c] # "idle") ~> (pc[c] = "idle")
    /\ [][\A c \in Callers :
             (pc[c] # "idle" /\ pc'[c] = "idle")
                 => /\ response'.caller = c
                    /\ response'.kind \in Outcomes
                    /\ response'.kind = "saved" <=> Len(ledger') = Len(ledger) + 1
          ]_vars

\* a save waits at its product UPDATE for the row lock another save holds
C14_Witness ==
    \E c, d \in Callers :
        /\ pc[c] = "psave"
        /\ PositiveIntegerField(product[c].stock_quantity)
        /\ HoldsLock(d, product[c].id)

\* C15: the persisted stock_quantity of an existing product changes only in
\* the commit of a Transaction.save on that product; home, product_detail
\* and add_product leave it alone, so that as long as no save has committed
\* on a product since product_detail read it, its stock is what was read.
C15_StockChangedOnlyBySave ==
    /\ [][\A p \in ProductIds :
             (p \in live /\ stock'[p] # stock[p])
                 => \E c \in Callers :
                       /\ pc[c] = "tsave" /\ pc'[c] = "idle"
                       /\ product[c].id = p
                       /\ response'.kind = "saved"]_vars
    /\ [](reader.pc \in {"detail", "rendered"}
             /\ pwrites[reader.pk] = reader.pseen
                => stock[reader.pk] = reader.stock_quantity)

\* add_product has created a product and product_detail has read another one
\* whose stock a save then changed
C15_Witness ==
    /\ NewProducts \subseteq live
    /\ reader.pc = "rendered"
    /\ pwrites[reader.pk] > reader.pseen
    /\ stock[reader.pk] # reader.stock_quantity

\* C16: when step 4 of populate_demo_data has ended, its loop has saved the
\* number of transactions it goes for (100 in the script).
C16_TargetReached ==
    script.pc = "done" => script.transaction_count = TransactionTarget

\* C17: the stock that a call of Transaction.save tests and adjusts is the
\* product's persisted stock_quantity at that time, however long before the
\* call its Product object was loaded.
C17_SaveUsesPersistedStock ==
    \A c \in Callers :
        pc[c] = "check" => product[c].stock_quantity = stock[product[c].id]

\* C18: when a save of the script fails after it has adjusted the stock (the
\* product write or the insert raises), the Product object of the script's
\* list afterwards holds the persisted stock again, given that it held the
\* persisted stock when the save was called.
C18_FailedSaveRestoresObject ==
    [][LET p == product[Writer].id
       IN  (/\ via[Writer] = "script"
            /\ pc[Writer] \in {"psave", "tsave"}
            /\ pc'[Writer] = "idle"
            /\ response'.kind # "saved"
            /\ products[p] = Adjusted([id |-> p, stock_quantity |-> stock[p]],
                                      txn[Writer]).stock_quantity)
               => products'[p] = stock'[p]]_vars

\* C19: a step of a save on one product leaves the persisted stock of every
\* other product, the script's Product objects of the other products and
\* every existing transaction row as they were, and it leaves the other
\* caller's save untouched; a save that commits persists the stock it
\* computed on its own Product object, whatever ran at the same time on
\* other products.
C19_OtherProductsUntouched ==
    [][\A c \in Callers :
          (pc[c] # "idle" /\ pc'[c] # pc[c])
              => LET p == product[c].id
                 IN  /\ \A q \in ProductIds \ {p} : stock'[q] = stock[q]
                     /\ \A q \in DOMAIN products \ {p} :
                           products'[q] = products[q]
                     /\ \A i \in 1..Len(ledger) :
                           Len(ledger') >= i /\ ledger'[i] = ledger[i]
                     /\ \A d \in Callers \ {c} :
                           /\ pc'[d] = pc[d]
                           /\ product'[d] = product[d]
                           /\ txn'[d] = txn[d]
                     /\ response'.kind = "saved"
                           => stock'[p] = product[c].stock_quantity]_vars

\* two saves that change the stock are in their atomic blocks at the same
\* time, each holding the row lock of another product
C19_Witness ==
    \E c, d \in Callers :
        /\ HoldsLock(c, 1) /\ stock[1] # product[c].stock_quantity
        /\ HoldsLock(d, 2) /\ stock[2] # product[d].stock_quantity

\* C20: every transaction row references a product that has a row and every
\* product row references a category that has a row; the step that deletes
\* a product leaves no transaction of it, and the step that deletes a
\* category leaves no product of it.
C20_ReferencesExist ==
    /\ [](/\ \A i \in 1..Len(ledger) : ledger[i].product \in live
          /\ \A p \in live : category[p] \in cats)
    /\ [][/\ \A p \in live \ live' : RowsOf(ledger', p) = <<>>
          /\ \A k \in cats \ cats' :
                \A p \in live' : category'[p] # k]_vars

\* after the script deleted the products, a save that had loaded product 1
\* before has put its row back and inserted a transaction, the category still
\* being there
C20_Witness ==
    /\ script.pc = "delete_categories"
    /\ 1 \in live
    /\ category[1] \in cats
    /\ RowsOf(ledger, 1) # <<>>

\* C21: a request of add_transaction changes nothing persisted unless it is
\* a POST with a valid form for a product that has a row; such a POST makes
\* one call of Transaction.save with the product of the URL and the data of
\* the form, the call keeps that product and data to its end, and what it
\* commits is one row of that product and the stock of that product only.
C21_OnlyValidPostApplies ==
    [][\A c \in Callers :
          /\ (pc[c] = "idle" /\ (pc'[c] # "idle" \/ response'.caller = c))
                => /\ \A pk \in ProductIds :
                         AddTransaction(c, pk, "GET", NoData)
                             => /\ pc'[c] = "idle"
                                /\ stock' = stock /\ ledger' = ledger
                   /\ \A pk \in ProductIds, data \in FormData :
                         AddTransaction(c, pk, "POST", data)
                             => /\ stock' = stock /\ ledger' = ledger
                                /\ IF FormIsValid(data) /\ pk \in live
                                   THEN /\ pc'[c] = "check"
                                        /\ product'[c].id = pk
                                        /\ txn'[c] = data
                                   ELSE pc'[c] = "idle"
          /\ (pc[c] # "idle" /\ pc'[c] # "idle")
                => product'[c].id = product[c].id /\ txn'[c] = txn[c]
          /\ (via[c] = "view" /\ pc[c] # "idle" /\ pc'[c] = "idle")
                => \/ stock' = stock /\ ledger' = ledger
                   \/ /\ response'.kind = "saved"
                      /\ Len(ledger') = Len(ledger) + 1
                      /\ SubSeq(ledger', 1, Len(ledger)) = ledger
                      /\ ledger'[Len(ledger')].product = product[c].id
                      /\ ledger'[Len(ledger')].transaction_type
                             = txn[c].transaction_type
                      /\ ledger'[Len(ledger')].quantity = txn[c].quantity
                      /\ \A q \in ProductIds \ {product[c].id} :
                            stock'[q] = stock[q]]_vars

\* a valid POST for product 2 has committed its transaction, the only row
C21_Witness ==
    /\ response.kind = "saved"
    /\ Len(ledger) = 1
    /\ ledger[1].product = 2
    /\ ledger[1].quantity > 0

\* C22: every request of add_product is answered with a response: the form
\* rendered, or a redirect to a route of the URL configuration; no request
\* ends in the ValueError of a view that returned None or in NoReverseMatch.
C22_AddProductResponds ==
    response.kind \notin {"ValueError", "NoReverseMatch"}

\* C23: the loop of step 4 ends; every iteration adds one to exactly one of
\* transaction_count and attempts; the loop is left when, and only when,
\* transaction_count has reached its target (100) or attempts has reached
\* max_attempts (1000); neither counter ever exceeds its limit.
C23_LoopTerminates ==
    /\ <>(script.pc = "done")
    /\ [][/\ (script.pc = "save" /\ script'.pc = "loop")
                => \/ /\ script'.transaction_count
                            = script.transaction_count + 1
                      /\ script'.attempts = script.attempts
                   \/ /\ script'.transaction_count = script.transaction_count
                      /\ script'.attempts = script.attempts + 1
          /\ (script.pc = "loop" /\ script'.pc = "done")
                => \/ script.transaction_count = TransactionTarget
                   \/ script.attempts = MaxAttempts
          /\ (script.pc = "loop" /\ script'.pc = "save")
                => /\ script.transaction_count < TransactionTarget
                   /\ script.attempts < MaxAttempts]_vars
    /\ [](/\ script.transaction_count <= TransactionTarget
          /\ script.attempts <= MaxAttempts)

\* the loop was left on its attempts, after it had saved a transaction
C23_Witness ==
    /\ script.pc = "done"
    /\ script.attempts = MaxAttempts
    /\ script.transaction_count > 0
    /\ script.transaction_count < TransactionTarget


\* C24: once a quit or EOF command has been processed, the console
\* processes no further command, in interactive and in non-interactive
\* mode: what onecmd is given after a quit or an EOF, if anything, is empty
\* lines, which are no commands
C24_NothingAfterQuit ==
    \A i \in DOMAIN console.processed :
       OneCmd(console.processed[i])
          => \A k \in (i + 1)..Len(console.processed) :
                console.processed[k] = ""


\* some completion of a start that the loop's test does not reject uses up
\* the characters left and is not rejected either
RECURSIVE Completes(_, _)
Completes(start, left) ==
    IF left = <<>> THEN TRUE
    ELSE \E i \in {j \in DOMAIN left : \A k \in 1..(j - 1) : left[k] # left[j]} :
            /\ ~Rejected(Append(start, left[i]))
            /\ Completes(Append(start, left[i]),
                         SubSeq(left, 1, i - 1) \o SubSeq(left, i + 1, Len(left)))

\* C25: generate_random_password terminates for every requested length and
\* every outcome of the draws: whatever characters were drawn, some order
\* of them passes the test of the reshuffle loop
C25_SomeOrderAccepted ==
    password.pc = "while" => Completes(<<>>, password.password_list)

\* C26: a returned password has length max(requested length, 8), holds a
\* lowercase letter, an uppercase letter, a digit and a special character,
\* has no character three times in a row and, read without case, neither
\* "abc" nor "123"
C26_ReturnedPasswordIsClean ==
    password.pc = "returned" =>
       LET pw == password.password_list
       IN /\ Len(pw) = IF password.requested < MinLength THEN MinLength
                       ELSE password.requested
          /\ \A class \in {Lowercase, Uppercase, Digits, Special} :
                \E i \in DOMAIN pw : pw[i] \in class
          /\ ~Repeats(pw)
          /\ ~Contains(Lowered(pw), <<"a", "b", "c">>)
          /\ ~Contains(Lowered(pw), <<"1", "2", "3">>)
\* a call below the minimum length returned a password that holds the
\* letters of "abc" and three equal characters
C26_Witness ==
    /\ password.pc = "returned"
    /\ password.requested < MinLength
    /\ \A ch \in {"a", "B"} :
          \E i \in DOMAIN password.password_list :
             password.password_list[i] = ch
    /\ Cardinality({i \in DOMAIN password.password_list :
                       password.password_list[i] = "c"}) >= 3

\* C27: the header drawn on a page after page 2 shows the number of the
\* chapter whose content is on that page
C27_HeaderShowsChapterOfPage ==
    \A i \in DOMAIN book.drawn :
       book.drawn[i].page > 2 /\ book.drawn[i].chapter > 0
          => book.drawn[i].header = book.drawn[i].chapter


\* the steps of one call of Transaction.save, in the order of lines 37-50,
\* with the exits an exception takes
SaveOrder ==
    {<<"idle", "check">>, <<"check", "adjust">>, <<"check", "idle">>,
     <<"adjust", "psave">>, <<"psave", "tsave">>, <<"psave", "idle">>,
     <<"tsave", "idle">>}
\* a step of caller c follows the order; the stock of its product object is
\* adjusted by the step after the check and by no other, and nothing is
\* committed before the last step
StepsInOrder(c) ==
    pc'[c] # pc[c] =>
       /\ <<pc[c], pc'[c]>> \in SaveOrder
       /\ pc[c] = "adjust" => product'[c] = Adjusted(product[c], txn[c])
       /\ pc[c] \in {"check", "psave"} /\ pc'[c] # "idle"
             => product'[c] = product[c]
       /\ pc[c] # "tsave"
             => /\ <<stock, ledger, pwrites, twrites>>' =
                      <<stock, ledger, pwrites, twrites>>
                /\ response'.kind # "saved"
\* the call that ends had passed the check and has made both writes
WritesBoth(c) ==
    pc[c] \in {"psave", "tsave"} /\ pc'[c] = "idle" =>
       LET p == product[c].id
       IN /\ pwrites'[p] = pwrites[p] + 1
          /\ twrites'[p] = twrites[p] + 1
\* the call that ends has made both writes if it returns, none if it raises
BothOrNeither(c) ==
    pc[c] \in {"psave", "tsave"} /\ pc'[c] = "idle" =>
       LET p == product[c].id
       IN IF response'.kind = "saved"
          THEN /\ pwrites'[p] = pwrites[p] + 1
               /\ stock'[p] = product[c].stock_quantity
               /\ twrites'[p] = twrites[p] + 1
               /\ Len(ledger') = Len(ledger) + 1
          ELSE <<stock, ledger, pwrites, twrites>>' =
                  <<stock, ledger, pwrites, twrites>>

\* C28: within one Transaction.save the steps occur in a fixed order inside
\* one atomic block: the check precedes the adjustment, the product is
\* saved before the transaction row is inserted, and a save that passes
\* the check performs both writes
C28_OrderedAndWritesBoth ==
    [][\A c \in Callers : StepsInOrder(c) /\ WritesBoth(c)]_vars
\* C28, amended: the same order, and a save that passes the check commits
\* both writes together when it returns and neither when it raises
C28_OrderedAndBothOrNeither ==
    [][\A c \in Callers : StepsInOrder(c) /\ BothOrNeither(c)]_vars
\* a save has gone through its four steps and committed a stock decrease
\* with its row
C28_Witness ==
    /\ response.kind = "saved"
    /\ Len(ledger) = 1
    /\ ledger[1].transaction_type = "OUT"
    /\ pwrites[ledger[1].product] = 1
    /\ twrites[ledger[1].product] = 1
    /\ stock[ledger[1].product] < initial_stock[ledger[1].product]

====
